---- MODULE Spec2Model ----
(***************************************************************************)
(* binmerge-gui: cuesheet parser, sector/timestamp arithmetic, cuesheet    *)
(* generators and the binary merge/split copy engines, with the two GUI    *)
(* button handlers that drive them (src/binmerge-gui.py).                  *)
(*                                                                         *)
(* Text is modelled as sequences of one-character strings wherever the     *)
(* code formats or parses it (timestamps, %02d fields); file names are     *)
(* strings built by concatenation.  The bytes of a file are modelled by    *)
(* their provenance: a sequence of extents [src, off, len], each standing  *)
(* for len bytes of the original file src starting at byte off, so that    *)
(* two files hold the same bytes for every content of the originals iff    *)
(* their (coalesced) extent sequences are equal.                           *)
(***************************************************************************)
EXTENDS Integers, Sequences, FiniteSets, TLC

VARIABLES
    fs,               \* the filesystem: path -> file (bin or cue); absent paths are not in the domain
    globalBlocksize,  \* Track.globalBlocksize; 0 stands for None
    pc,               \* position of the running button handler, "idle" between handlers
    ui,               \* state of the merge and split controls
    loc,              \* locals of the running handler
    last,             \* record of the last core call that returned or raised, with the
                      \* file handles it opened that are still open
    ops,              \* number of button clicks so far
    mergedFrom,       \* history: the cuesheet the last completed merge read
    pure              \* the call under test in the pure-function specification

vars == <<fs, globalBlocksize, pc, ui, loc, last, ops, mergedFrom, pure>>

-----------------------------------------------------------------------------
(* Python's integer formatting and parsing *)

DigitChars == <<"0", "1", "2", "3", "4", "5", "6", "7", "8", "9">>

IsDigit(c) == \E i \in 1..10 : DigitChars[i] = c

DigitValue(c) == (CHOOSE i \in 1..10 : DigitChars[i] = c) - 1

RECURSIVE Decimal(_)
\* str(n) for n >= 0
Decimal(n) ==
    IF n < 10 THEN <<DigitChars[n + 1]>>
    ELSE Decimal(n \div 10) \o <<DigitChars[(n % 10) + 1]>>

RECURSIVE ZeroPad(_, _)
ZeroPad(s, width) == IF Len(s) >= width THEN s ELSE ZeroPad(<<"0">> \o s, width)

\* '%02d' % v for a non-negative integer v
Fmt02d(v) == ZeroPad(Decimal(v), 2)

\* '%d' % v
Fmtd(v) == Decimal(v)

RECURSIVE ParseInt(_)
\* int(s) for a non-empty string of digits
ParseInt(s) ==
    IF Len(s) = 0 THEN 0
    ELSE 10 * ParseInt(SubSeq(s, 1, Len(s) - 1)) + DigitValue(s[Len(s)])

RECURSIVE Join(_)
\* the string whose characters are s
Join(s) == IF Len(s) = 0 THEN "" ELSE Head(s) \o Join(Tail(s))

-----------------------------------------------------------------------------
(* Python numbers: an int is [n, d = 1]; a float produced by true division *)
(* is kept as the exact quotient n/d (the sizes the model draws are        *)
(* multiples of half a sector, for which the float arithmetic is exact).   *)

Num(n) == [n |-> n, d |-> 1]

\* a / k
TrueDiv(a, k) == [n |-> a.n, d |-> a.d * k]

\* a % k, for a >= 0
Mod(a, k) == [n |-> a.n % (a.d * k), d |-> a.d]

\* a + b
Add(a, b) ==
    IF a.d = b.d THEN [n |-> a.n + b.n, d |-> a.d]
    ELSE IF b.d = 1 THEN [n |-> a.n + b.n * a.d, d |-> a.d]
    ELSE IF a.d = 1 THEN [n |-> a.n * b.d + b.n, d |-> b.d]
    ELSE [n |-> a.n * b.d + b.n * a.d, d |-> a.d * b.d]

\* the integer %d formats a non-negative number as: it truncates
Trunc(a) == a.n \div a.d

-----------------------------------------------------------------------------
(* Sector arithmetic *)

SectorsPerSecond == 75
SectorsPerMinute == 4500

\* a slip: the seconds taken from the whole count, not from what the minutes leave
sectors_to_cuestamp_seconds_unreduced(sectors) ==
    LET minutes == TrueDiv(sectors, SectorsPerMinute)
        seconds == TrueDiv(sectors, SectorsPerSecond)
        fields  == Mod(sectors, SectorsPerSecond)
    IN  Fmt02d(Trunc(minutes)) \o <<":">> \o Fmt02d(Trunc(seconds)) \o <<":">> \o Fmt02d(Trunc(fields))

sectors_to_cuestamp(sectors) ==
    LET minutes == TrueDiv(sectors, SectorsPerMinute)
        fields1 == Mod(sectors, SectorsPerMinute)
        seconds == TrueDiv(fields1, SectorsPerSecond)
        fields  == Mod(sectors, SectorsPerSecond)
    IN  Fmt02d(Trunc(minutes)) \o <<":">> \o Fmt02d(Trunc(seconds)) \o <<":">> \o Fmt02d(Trunc(fields))

RECURSIVE DigitSpan(_, _)
\* where a greedy \d+ starting at position i of s stops (i itself when no digit is there)
DigitSpan(s, i) ==
    IF i <= Len(s) /\ IsDigit(s[i]) THEN DigitSpan(s, i + 1) ELSE i

\* re.match("(\d+):(\d+):(\d+)", stamp): the three groups, or <<>> for None.
\* The pattern is anchored at the start of the string only.
MatchStamp(stamp) ==
    LET e1 == DigitSpan(stamp, 1)
        e2 == DigitSpan(stamp, e1 + 1)
        e3 == DigitSpan(stamp, e2 + 1)
    IN  IF /\ e1 > 1
           /\ e1 <= Len(stamp) /\ stamp[e1] = ":"
           /\ e2 > e1 + 1
           /\ e2 <= Len(stamp) /\ stamp[e2] = ":"
           /\ e3 > e2 + 1
        THEN <<SubSeq(stamp, 1, e1 - 1), SubSeq(stamp, e1 + 1, e2 - 1), SubSeq(stamp, e2 + 1, e3 - 1)>>
        ELSE <<>>

\* [err, val]: err is "" when the call returns val, else the exception raised
cuestamp_to_sectors(stamp) ==
    LET m == MatchStamp(stamp)
    IN  IF m = <<>>
        THEN [err |-> "AttributeError", val |-> 0]
        ELSE LET minutes == ParseInt(m[1])
                 seconds == ParseInt(m[2])
                 fields  == ParseInt(m[3])
             IN  [err |-> "", val |-> fields + (seconds * SectorsPerSecond) + (minutes * 60 * SectorsPerSecond)]

-----------------------------------------------------------------------------
(* Track file naming *)

\* a slip: the padding starts one track late
track_filename_pads_from_ten(prefix, track_num, track_count) ==
    IF track_count > 10
    THEN prefix \o " (Track " \o Join(Fmt02d(track_num)) \o ").bin"
    ELSE prefix \o " (Track " \o Join(Fmtd(track_num)) \o ").bin"

track_filename(prefix, track_num, track_count) ==
    IF track_count > 9
    THEN prefix \o " (Track " \o Join(Fmt02d(track_num)) \o ").bin"
    ELSE prefix \o " (Track " \o Join(Fmtd(track_num)) \o ").bin"

-----------------------------------------------------------------------------
(* File contents and the filesystem *)

NoData == <<>>

\* the bytes of an original file named src, of size bytes
Original(src, size) == IF size = 0 THEN NoData ELSE <<[src |-> src, off |-> 0, len |-> size]>>

RECURSIVE DataSize(_)
DataSize(data) == IF data = NoData THEN 0 ELSE Head(data).len + DataSize(Tail(data))

Min(a, b) == IF a < b THEN a ELSE b

RECURSIVE Slice(_, _, _)
\* bytes [from, to) of data, clipped to its end
Slice(data, from, to) ==
    IF data = NoData \/ to <= from THEN NoData
    ELSE LET e == Head(data)
         IN  IF from >= e.len
             THEN Slice(Tail(data), from - e.len, to - e.len)
             ELSE <<[src |-> e.src, off |-> e.off + from, len |-> Min(e.len, to) - from]>>
                  \o Slice(Tail(data), 0, to - e.len)

\* a followed by b (adjacent extents of one original coalesce)
Concat(a, b) ==
    IF a = NoData THEN b
    ELSE IF b = NoData THEN a
    ELSE LET x == a[Len(a)]
             y == b[1]
         IN  IF x.src = y.src /\ x.off + x.len = y.off
             THEN SubSeq(a, 1, Len(a) - 1)
                  \o <<[src |-> x.src, off |-> x.off, len |-> x.len + y.len]>>
                  \o Tail(b)
             ELSE a \o b

\* infile.read(n) at position pos: at most n bytes, everything up to the end when n < 0
Read(data, pos, n) ==
    IF n < 0 THEN Slice(data, pos, DataSize(data)) ELSE Slice(data, pos, pos + n)

BinFile(data, readable) == [kind |-> "bin", data |-> data, lines |-> <<>>, readable |-> readable]
CueFile(lines) == [kind |-> "cue", data |-> NoData, lines |-> lines, readable |-> TRUE]

\* os.path.exists / os.path.isfile (every path of the model is a regular file)
Exists(f, path) == path \in DOMAIN f
IsFile(f, path) == path \in DOMAIN f
\* os.access(path, os.R_OK)
Access(f, path) == path \in DOMAIN f /\ f[path].readable
\* os.path.getsize
GetSize(f, path) == DataSize(f[path].data)

\* the filesystem after path is created or replaced
Put(f, path, file) == [p \in (DOMAIN f) \cup {path} |-> IF p = path THEN file ELSE f[p]]

-----------------------------------------------------------------------------
(* Cuesheet lines: the three shapes the parser's patterns recognise *)

FileLine(name) == [kind |-> "FILE", name |-> name, num |-> <<>>, stamp |-> <<>>]
TrackLine(num, type) == [kind |-> "TRACK", name |-> type, num |-> num, stamp |-> <<>>]
IndexLine(num, stamp) == [kind |-> "INDEX", name |-> "", num |-> num, stamp |-> stamp]

None == <<>>

\* the blocksize Track.__init__ locks for a type tag; 0: the tag is in no branch
BlocksizeAudio == 2352
BlocksizeCDG == 2448
BlocksizeCooked == 2048
BlocksizeXA == 2336

BlocksizeOf(track_type) ==
    IF track_type \in {"AUDIO", "MODE1/2352", "MODE2/2352", "CDI/2352"} THEN BlocksizeAudio
    ELSE IF track_type = "CDG" THEN BlocksizeCDG
    ELSE IF track_type = "MODE1/2048" THEN BlocksizeCooked
    ELSE IF track_type \in {"MODE2/2336", "CDI/2336"} THEN BlocksizeXA
    ELSE 0

\* Track.__init__: the class attribute after the constructor ran
TrackInit(gbs, track_type) == IF gbs = 0 THEN BlocksizeOf(track_type) ELSE gbs

NewTrack(num, track_type) ==
    [num |-> num, track_type |-> track_type, indexes |-> <<>>, sectors |-> None]

NewFile(f, filename) == [filename |-> filename, tracks |-> <<>>, size |-> GetSize(f, filename)]

-----------------------------------------------------------------------------
(* The cuesheet parser *)

\* the FILE branch's test: the path passes when it is a file or is readable
FileLineRejected(f, this_path) == ~(IsFile(f, this_path) \/ Access(f, this_path))

\* the parser's state after one line; st.err names the exception that ended the parse
ReadLine(f, st, line) ==
    IF line.kind = "FILE" THEN
        IF FileLineRejected(f, line.name)
        THEN [st EXCEPT !.err = "BinMissing"]
        ELSE [st EXCEPT !.files = Append(@, NewFile(f, line.name)),
                        !.this_file = Len(st.files) + 1]
    ELSE IF line.kind = "TRACK" /\ st.this_file # 0 THEN
        LET gbs == TrackInit(st.gbs, line.name)
            fi  == st.this_file
        IN  IF gbs = 0
            THEN [st EXCEPT !.err = "TypeError"]
            ELSE [st EXCEPT !.gbs = gbs,
                            !.files[fi].tracks = Append(@, NewTrack(ParseInt(line.num), line.name)),
                            !.this_track = <<fi, Len(st.files[fi].tracks) + 1>>]
    ELSE IF line.kind = "INDEX" /\ st.this_track # None THEN
        LET fi == st.this_track[1]
            ti == st.this_track[2]
        IN  [st EXCEPT !.files[fi].tracks[ti].indexes =
                 Append(@, [id |-> ParseInt(line.num), stamp |-> line.stamp,
                            file_offset |-> cuestamp_to_sectors(line.stamp).val])]
    ELSE st

RECURSIVE ReadLines(_, _, _, _)
ReadLines(f, st, lines, i) ==
    IF i > Len(lines) \/ st.err # "" THEN st
    ELSE ReadLines(f, ReadLine(f, st, lines[i]), lines, i + 1)

RECURSIVE BackfillForward(_, _, _)
\* a slip: each track measured against the end of the file instead of the next track
BackfillForward(tracks, i, next_item_offset) ==
    IF i = 0 THEN tracks
    ELSE BackfillForward(
             [tracks EXCEPT ![i].sectors = <<next_item_offset - tracks[i].indexes[1].file_offset>>],
             i - 1, next_item_offset)

RECURSIVE Backfill(_, _, _)
\* the reversed walk over files[0].tracks, from track i down to the first
Backfill(tracks, i, next_item_offset) ==
    IF i = 0 THEN tracks
    ELSE Backfill(
             [tracks EXCEPT ![i].sectors = <<next_item_offset - tracks[i].indexes[1].file_offset>>],
             i - 1, tracks[i].indexes[1].file_offset)

\* read_cue_file: [err, files, gbs]; gbs is Track.globalBlocksize when the call ends
read_cue_file(f, gbs0, cue_path) ==
    IF ~Exists(f, cue_path)
    THEN [err |-> "FileNotFoundError", files |-> <<>>, gbs |-> gbs0]
    ELSE
    LET st == ReadLines(f, [files |-> <<>>, this_file |-> 0, this_track |-> None,
                            gbs |-> gbs0, err |-> ""],
                        f[cue_path].lines, 1)
    IN  IF st.err # "" THEN [err |-> st.err, files |-> <<>>, gbs |-> st.gbs]
        ELSE IF Len(st.files) # 1 THEN [err |-> "", files |-> st.files, gbs |-> st.gbs]
        ELSE IF st.gbs = 0 THEN [err |-> "TypeError", files |-> <<>>, gbs |-> st.gbs]
        ELSE IF \E i \in 1..Len(st.files[1].tracks) : st.files[1].tracks[i].indexes = <<>>
             THEN [err |-> "IndexError", files |-> <<>>, gbs |-> st.gbs]
        ELSE [err |-> "",
              files |-> <<[st.files[1] EXCEPT !.tracks =
                              Backfill(@, Len(@), st.files[1].size \div st.gbs)]>>,
              gbs |-> st.gbs]

-----------------------------------------------------------------------------
(* The cuesheet generators *)

\* a slip: "=" for "+=", the running offset forgets the files before the last one
AdvanceSectorPosOverwrites(sector_pos, size, gbs) == TrueDiv(Num(size), gbs)

\* sector_pos += f.size / Track.globalBlocksize
AdvanceSectorPos(sector_pos, size, gbs) == Add(sector_pos, TrueDiv(Num(size), gbs))

RECURSIVE MergedIndexLines(_, _, _)
MergedIndexLines(indexes, i, sector_pos) ==
    IF i > Len(indexes) THEN <<>>
    ELSE <<IndexLine(Fmt02d(indexes[i].id),
                     sectors_to_cuestamp(Add(sector_pos, Num(indexes[i].file_offset))))>>
         \o MergedIndexLines(indexes, i + 1, sector_pos)

RECURSIVE MergedTrackLines(_, _, _)
MergedTrackLines(tracks, i, sector_pos) ==
    IF i > Len(tracks) THEN <<>>
    ELSE <<TrackLine(Fmt02d(tracks[i].num), tracks[i].track_type)>>
         \o MergedIndexLines(tracks[i].indexes, 1, sector_pos)
         \o MergedTrackLines(tracks, i + 1, sector_pos)

RECURSIVE MergedFileLines(_, _, _, _)
MergedFileLines(files, k, sector_pos, gbs) ==
    IF k > Len(files) THEN <<>>
    ELSE MergedTrackLines(files[k].tracks, 1, sector_pos)
         \o MergedFileLines(files, k + 1, AdvanceSectorPos(sector_pos, files[k].size, gbs), gbs)

\* gen_merged_cuesheet: [err, lines]
gen_merged_cuesheet(gbs, basename, files) ==
    IF Len(files) > 0 /\ gbs = 0
    THEN [err |-> "TypeError", lines |-> <<>>]
    ELSE [err |-> "",
          lines |-> <<FileLine(basename \o ".bin")>> \o MergedFileLines(files, 1, Num(0), gbs)]

RECURSIVE SplitIndexLines(_, _)
SplitIndexLines(indexes, i) ==
    IF i > Len(indexes) THEN <<>>
    ELSE <<IndexLine(Fmt02d(indexes[i].id),
                     sectors_to_cuestamp(Num(indexes[i].file_offset - indexes[1].file_offset)))>>
         \o SplitIndexLines(indexes, i + 1)

RECURSIVE SplitTrackLines(_, _, _)
SplitTrackLines(basename, tracks, i) ==
    IF i > Len(tracks) THEN <<>>
    ELSE <<FileLine(track_filename(basename, tracks[i].num, Len(tracks))),
           TrackLine(Fmt02d(tracks[i].num), tracks[i].track_type)>>
         \o SplitIndexLines(tracks[i].indexes, 1)
         \o SplitTrackLines(basename, tracks, i + 1)

\* gen_split_cuesheet
gen_split_cuesheet(basename, merged_file) == SplitTrackLines(basename, merged_file.tracks, 1)

-----------------------------------------------------------------------------
(* The copy engines *)

Chunksize == 1048576

\* open(path, 'rb'): "" when the file opens, else the OSError raised
OpenReadError(f, path) ==
    IF ~Exists(f, path) THEN "FileNotFoundError"
    ELSE IF ~f[path].readable THEN "PermissionError"
    ELSE ""

RECURSIVE CopyChunks(_, _, _)
\* merge_files' inner loop: out after infile, read from pos, is copied chunk by chunk
CopyChunks(data, pos, out) ==
    LET chunk == Read(data, pos, Chunksize)
    IN  IF chunk = NoData THEN out
        ELSE CopyChunks(data, pos + DataSize(chunk), Concat(out, chunk))

RECURSIVE MergeLoop(_, _, _, _)
\* merge_files' loop over files, from the k-th: [err, fs]
MergeLoop(f, merged_filename, files, k) ==
    IF k > Len(files) THEN [err |-> "", fs |-> f]
    ELSE LET e == OpenReadError(f, files[k].filename)
         IN  IF e # "" THEN [err |-> e, fs |-> f]
             ELSE MergeLoop(
                      [f EXCEPT ![merged_filename].data =
                           CopyChunks(f[files[k].filename].data, 0, @)],
                      merged_filename, files, k + 1)

\* a slip: no test of the destination, open(..., 'wb') truncates what is there
merge_files_clobbers(f, merged_filename, files) ==
    MergeLoop(Put(f, merged_filename, BinFile(NoData, TRUE)), merged_filename, files, 1)

\* merge_files: [err, fs]
merge_files(f, merged_filename, files) ==
    IF Exists(f, merged_filename)
    THEN [err |-> "TargetExists", fs |-> f]
    ELSE MergeLoop(Put(f, merged_filename, BinFile(NoData, TRUE)), merged_filename, files, 1)

RECURSIVE SplitCopy(_, _, _, _, _, _)
\* split_files' inner loop for one track: [out, pos] when it breaks
SplitCopy(data, pos, chunksize, written, tracksize, out) ==
    LET c     == IF chunksize + written > tracksize THEN tracksize - written ELSE chunksize
        chunk == Read(data, pos, c)
    IN  IF written + c = tracksize
        THEN [out |-> Concat(out, chunk), pos |-> pos + DataSize(chunk)]
        ELSE SplitCopy(data, pos + DataSize(chunk), c, written + c, tracksize, Concat(out, chunk))

RECURSIVE SplitLoop(_, _, _, _, _, _, _)
\* split_files' second loop over the tracks, from the i-th: [err, fs]
SplitLoop(f, gbs, new_basename, tracks, i, data, pos) ==
    IF i > Len(tracks) THEN [err |-> "", fs |-> f]
    ELSE IF tracks[i].sectors = None THEN [err |-> "TypeError", fs |-> f]
    ELSE LET out_name == track_filename(new_basename, tracks[i].num, Len(tracks))
             r == SplitCopy(data, pos, Chunksize, 0, tracks[i].sectors[1] * gbs, NoData)
         IN  SplitLoop(Put(f, out_name, BinFile(r.out, TRUE)), gbs, new_basename,
                       tracks, i + 1, data, r.pos)

\* the first target of tracks i.. that already exists, "" when none does
RECURSIVE FirstClobber(_, _, _, _)
FirstClobber(f, new_basename, tracks, i) ==
    IF i > Len(tracks) THEN ""
    ELSE LET out_name == track_filename(new_basename, tracks[i].num, Len(tracks))
         IN  IF Exists(f, out_name) THEN out_name
             ELSE FirstClobber(f, new_basename, tracks, i + 1)

\* split_files: [err, fs]
split_files(f, gbs, new_basename, merged_file) ==
    LET e == OpenReadError(f, merged_file.filename)
    IN  IF e # "" THEN [err |-> e, fs |-> f]
        ELSE IF FirstClobber(f, new_basename, merged_file.tracks, 1) # ""
        THEN [err |-> "TargetExists", fs |-> f]
        ELSE SplitLoop(f, gbs, new_basename, merged_file.tracks, 1,
                       f[merged_file.filename].data, 0)

-----------------------------------------------------------------------------
(* File handles: what each core function opens and closes, in order.  A     *)
(* "with" block closes its handle on every way out of the block; a handle   *)
(* opened by a bare open() is closed only where the code calls close().     *)

Opened(path) == [op |-> "open", path |-> path]
Closed(path) == [op |-> "close", path |-> path]

RECURSIVE StillOpen(_)
\* the handles open after the events
StillOpen(events) ==
    IF events = <<>> THEN {}
    ELSE LET e    == events[Len(events)]
             rest == StillOpen(SubSeq(events, 1, Len(events) - 1))
         IN  IF e.op = "open" THEN rest \cup {e.path} ELSE rest \ {e.path}

\* read_cue_file: f = open(cue_path, 'r'), and no close() up to the return
read_cue_file_events(f, cue_path) ==
    IF ~Exists(f, cue_path) THEN <<>> ELSE <<Opened(cue_path)>>

\* a handle nothing refers to any more is closed when the garbage collector
\* gets to it: the handles of those left that are still open
Uncollected(left) == SUBSET left

RECURSIVE MergeLoopEvents(_, _, _)
\* merge_files' loop over files, from the k-th; an open() that raises ends it
MergeLoopEvents(f, files, k) ==
    IF k > Len(files) \/ OpenReadError(f, files[k].filename) # "" THEN <<>>
    ELSE <<Opened(files[k].filename), Closed(files[k].filename)>>
         \o MergeLoopEvents(f, files, k + 1)

merge_files_events(f, merged_filename, files) ==
    IF Exists(f, merged_filename) THEN <<>>
    ELSE <<Opened(merged_filename)>> \o MergeLoopEvents(f, files, 1) \o <<Closed(merged_filename)>>

RECURSIVE SplitLoopEvents(_, _, _)
\* split_files' second loop over the tracks, from the i-th; the TypeError of an
\* unset sector count ends it before the track's output is opened
SplitLoopEvents(new_basename, tracks, i) ==
    IF i > Len(tracks) \/ tracks[i].sectors = None THEN <<>>
    ELSE LET out_name == track_filename(new_basename, tracks[i].num, Len(tracks))
         IN  <<Opened(out_name), Closed(out_name)>> \o SplitLoopEvents(new_basename, tracks, i + 1)

split_files_events(f, new_basename, merged_file) ==
    IF OpenReadError(f, merged_file.filename) # "" THEN <<>>
    ELSE <<Opened(merged_file.filename)>>
         \o (IF FirstClobber(f, new_basename, merged_file.tracks, 1) # "" THEN <<>>
             ELSE SplitLoopEvents(new_basename, merged_file.tracks, 1))
         \o <<Closed(merged_file.filename)>>

-----------------------------------------------------------------------------
(* The initial filesystem: a split image of three per-track files described *)
(* by split.cue, a merged image img.bin described by single.cue, and one    *)
(* foreign file that already has the name of a split target.                *)

MaxClicks == 3

Stamp000000 == <<"0", "0", ":", "0", "0", ":", "0", "0">>
Stamp000200 == <<"0", "0", ":", "0", "2", ":", "0", "0">>
Stamp024000 == <<"0", "2", ":", "4", "0", ":", "0", "0">>
Stamp025325 == <<"0", "2", ":", "5", "3", ":", "2", "5">>
Stamp025525 == <<"0", "2", ":", "5", "5", ":", "2", "5">>

SplitBins == <<"t1.bin", "t2.bin", "t3.bin">>

\* type of the first track of split.cue, and of the tracks after it (one blocksize per image)
SplitTypes == {"MODE2/2352", "MODE1/2048"}
LaterType(first) == IF first = "MODE2/2352" THEN "AUDIO" ELSE first

SingleTypes == {"CDG", "MODE2/2336"}

SplitCueLines(type) ==
    << FileLine("t1.bin"), TrackLine(<<"0", "1">>, type), IndexLine(<<"0", "1">>, Stamp000000),
       FileLine("t2.bin"), TrackLine(<<"0", "2">>, LaterType(type)),
           IndexLine(<<"0", "0">>, Stamp000000), IndexLine(<<"0", "1">>, Stamp000200),
       FileLine("t3.bin"), TrackLine(<<"0", "3">>, LaterType(type)),
           IndexLine(<<"0", "1">>, Stamp000000) >>

SingleCueLines(type, ntracks) ==
    << FileLine("img.bin"), TrackLine(<<"0", "1">>, type), IndexLine(<<"0", "1">>, Stamp000000),
       TrackLine(<<"0", "2">>, "AUDIO"), IndexLine(<<"0", "1">>, Stamp024000) >>
    \o IF ntracks = 2 THEN <<>>
       ELSE << TrackLine(<<"0", "3">>, "AUDIO"),
               IndexLine(<<"0", "0">>, Stamp025325), IndexLine(<<"0", "1">>, Stamp025525) >>

\* file sizes are drawn in half sectors: h half sectors of blocksize bs
HalfSectors(h, bs) == (h * bs) \div 2

Conditions == {"ok", "t2 unreadable", "img unreadable", "t3 missing"}

\* sizes of t1.bin, t2.bin, t3.bin in half sectors: whole sectors (1000, 500 and 1),
\* one and a half sectors each, and an empty file before one of exactly one chunk
\* (1024 half sectors of 2048 bytes)
SplitSizes == {<<2000, 1000, 2>>, <<3, 3, 2>>, <<2000, 0, 1024>>}

\* size of img.bin in half sectors and number of tracks of single.cue: 15000 sectors,
\* 15000 and a half, and a file that ends before its second track starts
SingleImages == {<<30000, 2>>, <<30001, 3>>, <<2, 2>>}

InitFs(splitType, h1, h2, h3, singleType, himg, ntracks, cond) ==
    LET bs  == BlocksizeOf(splitType)
        bsi == BlocksizeOf(singleType)
        all == [p \in {"split.cue", "single.cue", "t1.bin", "t2.bin", "t3.bin", "img.bin",
                       "alt (Track 2).bin"} |->
                  CASE p = "split.cue"  -> CueFile(SplitCueLines(splitType))
                    [] p = "single.cue" -> CueFile(SingleCueLines(singleType, ntracks))
                    [] p = "t1.bin"     -> BinFile(Original(p, HalfSectors(h1, bs)), TRUE)
                    [] p = "t2.bin"     -> BinFile(Original(p, HalfSectors(h2, bs)), cond # "t2 unreadable")
                    [] p = "t3.bin"     -> BinFile(Original(p, HalfSectors(h3, bs)), TRUE)
                    [] p = "img.bin"    -> BinFile(Original(p, HalfSectors(himg, bsi)), cond # "img unreadable")
                    [] OTHER            -> BinFile(Original(p, 1), TRUE)]
    IN  IF cond = "t3 missing"
        THEN [p \in (DOMAIN all) \ {"t3.bin"} |-> all[p]]
        ELSE all

NoDest == [path |-> "", stem |-> ""]
Dest(stem) == [path |-> stem \o ".cue", stem |-> stem]

NoLoc == [cuefile |-> "", dest |-> NoDest, cue_map |-> <<>>, cuesheet |-> <<>>]
NoCall == [fn |-> "", err |-> "", path |-> "", before |-> <<>>, gbs0 |-> 0, files |-> <<>>,
           open |-> {}]
NoPure == [fn |-> "", args |-> <<>>, ret |-> <<>>]

Init ==
    /\ \E splitType \in SplitTypes, h \in SplitSizes, singleType \in SingleTypes,
          img \in SingleImages, cond \in Conditions :
          fs = InitFs(splitType, h[1], h[2], h[3], singleType, img[1], img[2], cond)
    /\ globalBlocksize = 0
    /\ pc = "idle"
    /\ ui = [merge |-> TRUE, split |-> TRUE]
    /\ loc = NoLoc
    /\ last = NoCall
    /\ ops = 0
    /\ mergedFrom = ""
    /\ pure = NoPure

-----------------------------------------------------------------------------
(* The button handlers.  A click draws the contents of the two entry fields *)
(* (the source cuesheet and the destination chosen in the save dialog).     *)

MergeSources == {"split.cue", "single.cue", ""}
MergeDests == {Dest("out"), NoDest}
SplitSources == {"single.cue", "out.cue", "split.cue", ""}
SplitDests == {Dest("sp"), Dest("alt"), NoDest}

Call(fn, err, path, files) ==
    [fn |-> fn, err |-> err, path |-> path, before |-> fs, gbs0 |-> globalBlocksize, files |-> files,
     open |-> {}]

\* merge_btn_action, lines 507-517: a missing field shows an error box and returns
MergeClickRejected ==
    /\ pc = "idle" /\ ui.merge /\ ops < MaxClicks
    /\ \E cuefile \in MergeSources, dest \in MergeDests : cuefile = "" \/ dest = NoDest
    /\ ops' = ops + 1
    /\ last' = NoCall
    /\ UNCHANGED <<fs, globalBlocksize, pc, ui, loc, mergedFrom, pure>>

\* merge_btn_action, lines 519-521: disable_merge_ui
MergeClick ==
    /\ pc = "idle" /\ ui.merge /\ ops < MaxClicks
    /\ \E cuefile \in MergeSources, dest \in MergeDests :
          /\ cuefile # "" /\ dest # NoDest
          /\ loc' = [NoLoc EXCEPT !.cuefile = cuefile, !.dest = dest]
    /\ ui' = [ui EXCEPT !.merge = FALSE]
    /\ pc' = "merge_read"
    /\ ops' = ops + 1
    /\ last' = NoCall
    /\ UNCHANGED <<fs, globalBlocksize, mergedFrom, pure>>

\* merge_btn_action, lines 522-527: any exception of the parse is logged, the UI enabled
MergeRead ==
    /\ pc = "merge_read"
    /\ LET r == read_cue_file(fs, globalBlocksize, loc.cuefile)
       IN  /\ globalBlocksize' = r.gbs
           /\ \E open \in Uncollected(StillOpen(read_cue_file_events(fs, loc.cuefile))) :
                  last' = [Call("read_cue_file", r.err, loc.cuefile, r.files) EXCEPT !.open = open]
           /\ IF r.err # ""
              THEN /\ ui' = [ui EXCEPT !.merge = TRUE]
                   /\ pc' = "idle"
                   /\ loc' = NoLoc
              ELSE /\ loc' = [loc EXCEPT !.cue_map = r.files]
                   /\ pc' = "merge_gen"
                   /\ UNCHANGED ui
    /\ UNCHANGED <<fs, ops, mergedFrom, pure>>

\* merge_btn_action, lines 528-534: a TypeError of the generator is not an
\* ErrorException and leaves the handler with the UI disabled
MergeGen ==
    /\ pc = "merge_gen"
    /\ LET g == gen_merged_cuesheet(globalBlocksize, loc.dest.stem, loc.cue_map)
       IN  /\ last' = Call("gen_merged_cuesheet", g.err, loc.dest.stem, loc.cue_map)
           /\ IF g.err # ""
              THEN pc' = "idle" /\ loc' = NoLoc
              ELSE pc' = "merge_copy" /\ loc' = [loc EXCEPT !.cuesheet = g.lines]
    /\ UNCHANGED <<fs, globalBlocksize, ui, ops, mergedFrom, pure>>

\* merge_btn_action, lines 536-541 and 547-550
MergeCopy ==
    /\ pc = "merge_copy"
    /\ LET path == loc.dest.stem \o ".bin"
           r == merge_files(fs, path, loc.cue_map)
       IN  /\ fs' = r.fs
           /\ last' = [Call("merge_files", r.err, path, loc.cue_map)
                         EXCEPT !.open = StillOpen(merge_files_events(fs, path, loc.cue_map))]
           /\ IF r.err = "" THEN pc' = "merge_cue" /\ UNCHANGED <<ui, loc>>
              ELSE /\ pc' = "idle"
                   /\ loc' = NoLoc
                   /\ ui' = [ui EXCEPT !.merge = (r.err = "TargetExists")]
    /\ UNCHANGED <<globalBlocksize, ops, mergedFrom, pure>>

\* open(path, 'w') of the new cuesheet: "" when it opens, or the OSError the
\* system raises (no permission to write there, no space left)
OpenWriteOutcomes == {"", "OSError"}

\* merge_btn_action, lines 543-550: the cuesheet is written, enable_merge_ui; an
\* OSError of the open() is not an ErrorException and leaves the handler with the
\* UI disabled
MergeWriteCue ==
    /\ pc = "merge_cue"
    /\ \E e \in OpenWriteOutcomes :
          IF e = ""
          THEN /\ fs' = Put(fs, loc.dest.path, CueFile(loc.cuesheet))
               /\ mergedFrom' = loc.cuefile
               /\ ui' = [ui EXCEPT !.merge = TRUE]
               /\ last' = NoCall
          ELSE /\ last' = Call("open", e, loc.dest.path, <<>>)
               /\ UNCHANGED <<fs, mergedFrom, ui>>
    /\ pc' = "idle"
    /\ loc' = NoLoc
    /\ UNCHANGED <<globalBlocksize, ops, pure>>

\* split_btn_action, lines 432-442
SplitClickRejected ==
    /\ pc = "idle" /\ ui.split /\ ops < MaxClicks
    /\ \E cuefile \in SplitSources, dest \in SplitDests : cuefile = "" \/ dest = NoDest
    /\ ops' = ops + 1
    /\ last' = NoCall
    /\ UNCHANGED <<fs, globalBlocksize, pc, ui, loc, mergedFrom, pure>>

\* split_btn_action, lines 444-446: disable_split_ui
SplitClick ==
    /\ pc = "idle" /\ ui.split /\ ops < MaxClicks
    /\ \E cuefile \in SplitSources, dest \in SplitDests :
          /\ cuefile # "" /\ dest # NoDest
          /\ loc' = [NoLoc EXCEPT !.cuefile = cuefile, !.dest = dest]
    /\ ui' = [ui EXCEPT !.split = FALSE]
    /\ pc' = "split_read"
    /\ ops' = ops + 1
    /\ last' = NoCall
    /\ UNCHANGED <<fs, globalBlocksize, mergedFrom, pure>>

\* split_btn_action, lines 447-452
SplitRead ==
    /\ pc = "split_read"
    /\ LET r == read_cue_file(fs, globalBlocksize, loc.cuefile)
       IN  /\ globalBlocksize' = r.gbs
           /\ \E open \in Uncollected(StillOpen(read_cue_file_events(fs, loc.cuefile))) :
                  last' = [Call("read_cue_file", r.err, loc.cuefile, r.files) EXCEPT !.open = open]
           /\ IF r.err # ""
              THEN /\ ui' = [ui EXCEPT !.split = TRUE]
                   /\ pc' = "idle"
                   /\ loc' = NoLoc
              ELSE /\ loc' = [loc EXCEPT !.cue_map = r.files]
                   /\ pc' = "split_gen"
                   /\ UNCHANGED ui
    /\ UNCHANGED <<fs, ops, mergedFrom, pure>>

\* split_btn_action, lines 454-456 and 470-473: cue_map[0] of an empty list is an
\* IndexError, caught by "except Exception"
SplitGen ==
    /\ pc = "split_gen"
    /\ IF loc.cue_map = <<>>
       THEN /\ last' = Call("gen_split_cuesheet", "IndexError", loc.dest.stem, loc.cue_map)
            /\ ui' = [ui EXCEPT !.split = TRUE]
            /\ pc' = "idle"
            /\ loc' = NoLoc
       ELSE /\ last' = Call("gen_split_cuesheet", "", loc.dest.stem, loc.cue_map)
            /\ loc' = [loc EXCEPT !.cuesheet = gen_split_cuesheet(loc.dest.stem, loc.cue_map[1])]
            /\ pc' = "split_copy"
            /\ UNCHANGED ui
    /\ UNCHANGED <<fs, globalBlocksize, ops, mergedFrom, pure>>

\* split_btn_action, lines 457-462 and 468-473: every exception is caught, the UI enabled
SplitFiles ==
    /\ pc = "split_copy"
    /\ LET r == split_files(fs, globalBlocksize, loc.dest.stem, loc.cue_map[1])
       IN  /\ fs' = r.fs
           /\ last' = [Call("split_files", r.err, loc.dest.stem, loc.cue_map)
                         EXCEPT !.open = StillOpen(split_files_events(fs, loc.dest.stem,
                                                                      loc.cue_map[1]))]
           /\ IF r.err = "" THEN pc' = "split_cue" /\ UNCHANGED <<ui, loc>>
              ELSE /\ pc' = "idle"
                   /\ loc' = NoLoc
                   /\ ui' = [ui EXCEPT !.split = TRUE]
    /\ UNCHANGED <<globalBlocksize, ops, mergedFrom, pure>>

\* split_btn_action, lines 464-473: the cuesheet is written; an OSError of the
\* open() is caught by "except Exception"; enable_split_ui either way
SplitWriteCue ==
    /\ pc = "split_cue"
    /\ \E e \in OpenWriteOutcomes :
          IF e = ""
          THEN /\ fs' = Put(fs, loc.dest.path, CueFile(loc.cuesheet))
               /\ last' = NoCall
          ELSE /\ last' = Call("open", e, loc.dest.path, <<>>)
               /\ UNCHANGED fs
    /\ ui' = [ui EXCEPT !.split = TRUE]
    /\ pc' = "idle"
    /\ loc' = NoLoc
    /\ UNCHANGED <<globalBlocksize, ops, mergedFrom, pure>>

Next ==
    \/ MergeClickRejected
    \/ MergeClick
    \/ MergeRead
    \/ MergeGen
    \/ MergeCopy
    \/ MergeWriteCue
    \/ SplitClickRejected
    \/ SplitClick
    \/ SplitRead
    \/ SplitGen
    \/ SplitFiles
    \/ SplitWriteCue

Spec == Init /\ [][Next]_vars

-----------------------------------------------------------------------------
(* The pure functions on their own: a call is drawn, then applied.          *)

MaxMinutes == 100
MaxTrackNum == 100
MaxTrackCount == 15

Prefixes == {"Game", "dir/My Disc"}

\* the strings handed to cuestamp_to_sectors on its own: every string of up to
\* MaxStampLen characters over two digits, the colon and a letter
MaxStampLen == 8
StampChars == {"0", "7", ":", "x"}
Stamps == UNION {[1..n -> StampChars] : n \in 0..MaxStampLen}

PureCall(fn, args, ret) == [fn |-> fn, args |-> args, ret |-> ret]

PureInit ==
    /\ fs = <<>>
    /\ globalBlocksize = 0
    /\ pc = "pure"
    /\ ui = [merge |-> TRUE, split |-> TRUE]
    /\ loc = NoLoc
    /\ last = NoCall
    /\ ops = 0
    /\ mergedFrom = ""
    /\ \/ \E x \in 0..(MaxMinutes * 60 * SectorsPerSecond - 1) :
             pure = PureCall("sectors", <<x>>, None)
       \/ \E prefix \in Prefixes, n \in 0..MaxTrackNum, count \in 0..MaxTrackCount :
             pure = PureCall("name", <<prefix, n, count>>, None)
       \/ \E stamp \in Stamps :
             pure = PureCall("stamp", <<stamp>>, None)

ApplySectorsToCuestamp ==
    /\ pure.fn = "sectors"
    /\ pure' = PureCall("sectors_to_cuestamp", pure.args, sectors_to_cuestamp(Num(pure.args[1])))
    /\ UNCHANGED <<fs, globalBlocksize, pc, ui, loc, last, ops, mergedFrom>>

ApplyCuestampToSectors ==
    /\ pure.fn = "sectors_to_cuestamp"
    /\ pure' = PureCall("round_trip", pure.args, cuestamp_to_sectors(pure.ret))
    /\ UNCHANGED <<fs, globalBlocksize, pc, ui, loc, last, ops, mergedFrom>>

ApplyTrackFilename ==
    /\ pure.fn = "name"
    /\ pure' = PureCall("track_filename", pure.args,
                        track_filename(pure.args[1], pure.args[2], pure.args[3]))
    /\ UNCHANGED <<fs, globalBlocksize, pc, ui, loc, last, ops, mergedFrom>>

\* cuestamp_to_sectors on a string of the caller's
ApplyCuestampToSectorsOnString ==
    /\ pure.fn = "stamp"
    /\ pure' = PureCall("cuestamp_to_sectors", pure.args, cuestamp_to_sectors(pure.args[1]))
    /\ UNCHANGED <<fs, globalBlocksize, pc, ui, loc, last, ops, mergedFrom>>

PureNext ==
    \/ ApplySectorsToCuestamp
    \/ ApplyCuestampToSectors
    \/ ApplyTrackFilename
    \/ ApplyCuestampToSectorsOnString

SpecPure == PureInit /\ [][PureNext]_vars

-----------------------------------------------------------------------------
(* C1: for every sector count x with 0 <= x < 100*60*75, converting x to a  *)
(* timestamp and the timestamp back to sectors gives x again.               *)
C1_RoundTrip ==
    pure.fn = "round_trip" => pure.ret = [err |-> "", val |-> pure.args[1]]

\* the last count of the range, 99:59:74, has gone both ways
C1_Witness ==
    /\ pure.fn = "round_trip"
    /\ pure.args = <<100 * 60 * 75 - 1>>
    /\ pure.ret.val = 449999

-----------------------------------------------------------------------------
\* the decimal numeral of n < 1000, written out digit by digit
Numeral(n) ==
    IF n < 10 THEN DigitChars[n + 1]
    ELSE IF n < 100 THEN DigitChars[(n \div 10) + 1] \o DigitChars[(n % 10) + 1]
    ELSE DigitChars[(n \div 100) + 1] \o DigitChars[((n \div 10) % 10) + 1] \o DigitChars[(n % 10) + 1]

(* C9: track_filename(prefix, n, count) is "<prefix> (Track <NN>).bin", n   *)
(* zero-padded to two digits, when count > 9, and "<prefix> (Track <N>).bin" *)
(* with n unpadded when count <= 9; ("Game", 3, 9) gives                    *)
(* "Game (Track 3).bin" and ("Game", 3, 15) gives "Game (Track 03).bin".    *)
C9_TrackFilename ==
    pure.fn = "track_filename" =>
        LET prefix == pure.args[1]
            n      == pure.args[2]
            count  == pure.args[3]
        IN  /\ count > 9 /\ n < 10 => pure.ret = prefix \o " (Track 0" \o Numeral(n) \o ").bin"
            /\ count > 9 /\ n >= 10 => pure.ret = prefix \o " (Track " \o Numeral(n) \o ").bin"
            /\ count <= 9 => pure.ret = prefix \o " (Track " \o Numeral(n) \o ").bin"
            /\ pure.args = <<"Game", 3, 9>> => pure.ret = "Game (Track 3).bin"
            /\ pure.args = <<"Game", 3, 15>> => pure.ret = "Game (Track 03).bin"

\* the padded example of the claim has been computed
C9_Witness ==
    /\ pure.fn = "track_filename"
    /\ pure.args = <<"Game", 3, 15>>
    /\ pure.ret = "Game (Track 03).bin"

-----------------------------------------------------------------------------
(* Claims about the parser, the generators and the engines, checked in the  *)
(* state right after the call: last is the call, fs the filesystem after it *)

\* the sector an 8-character MM:SS:FF names
StampSectors(stamp) ==
    (DigitValue(stamp[1]) * 10 + DigitValue(stamp[2])) * 4500
    + (DigitValue(stamp[4]) * 10 + DigitValue(stamp[5])) * 75
    + (DigitValue(stamp[7]) * 10 + DigitValue(stamp[8]))

RECURSIVE SizeBefore(_, _)
\* the bytes of the files before the k-th
SizeBefore(files, k) == IF k <= 1 THEN 0 ELSE SizeBefore(files, k - 1) + files[k - 1].size

RECURSIVE FlatOffsets(_, _, _)
\* <<k, offset>> of every index of every track of the files from the k-th, track i, on
FlatOffsets(files, k, i) ==
    IF k > Len(files) THEN <<>>
    ELSE IF i > Len(files[k].tracks) THEN FlatOffsets(files, k + 1, 1)
    ELSE [j \in 1..Len(files[k].tracks[i].indexes) |->
             <<k, files[k].tracks[i].indexes[j].file_offset>>]
         \o FlatOffsets(files, k, i + 1)

IsIndexLine(line) == line.kind = "INDEX"

WholeSectorsBefore(files, k, bs) == \A j \in 1..(k - 1) : files[j].size % bs = 0

(* C3: merge_files called with a destination that already exists fails with *)
(* the target-exists error and leaves the filesystem as it was: the         *)
(* destination keeps its bytes and no file is created or altered.           *)
C3_MergeTargetExists ==
    (last.fn = "merge_files" /\ Exists(last.before, last.path)) =>
        /\ last.err = "TargetExists"
        /\ fs = last.before

\* a merge was refused because its destination was there
C3_Witness ==
    /\ last.fn = "merge_files"
    /\ Exists(last.before, last.path)
    /\ last.err = "TargetExists"
    /\ Len(last.files) = 3

(* C5: after read_cue_file parsed a cuesheet naming exactly one binary file, *)
(* every track's sectors is the first index offset of the next track minus  *)
(* its own first index offset, and for the last track (file size div        *)
(* blocksize) minus its own first index offset; two tracks with first       *)
(* indexes at 0 and 12000 in a file of blocksize*15000 bytes get 12000 and  *)
(* 3000.  When the cuesheet names more than one file, every track's sectors *)
(* stays unset.  The blocksize is the one in force, Track.globalBlocksize.  *)
C5_SectorCounts ==
    (last.fn = "read_cue_file" /\ last.err = "") =>
        /\ Len(last.files) = 1 =>
             LET file == last.files[1]
                 n    == Len(file.tracks)
             IN  /\ \A i \in 1..n :
                        file.tracks[i].sectors =
                            << (IF i < n THEN file.tracks[i + 1].indexes[1].file_offset
                                ELSE file.size \div globalBlocksize)
                               - file.tracks[i].indexes[1].file_offset >>
                 /\ (/\ last.path = "single.cue"
                     /\ n = 2
                     /\ file.size = globalBlocksize * 15000)
                    => /\ file.tracks[1].sectors = <<12000>>
                       /\ file.tracks[2].sectors = <<3000>>
        /\ Len(last.files) > 1 =>
             \A k \in 1..Len(last.files) : \A i \in 1..Len(last.files[k].tracks) :
                 last.files[k].tracks[i].sectors = None

\* the example of the claim has been parsed
C5_Witness ==
    /\ last.fn = "read_cue_file"
    /\ last.err = ""
    /\ last.path = "single.cue"
    /\ Len(last.files) = 1
    /\ Len(last.files[1].tracks) = 2
    /\ last.files[1].size = globalBlocksize * 15000
    /\ last.files[1].tracks[1].sectors = <<12000>>
    /\ last.files[1].tracks[2].sectors = <<3000>>

-----------------------------------------------------------------------------
\* the INDEX lines of the cuesheet gen_merged_cuesheet just returned, in order
Emitted == SelectSeq(loc.cuesheet, IsIndexLine)

\* <<k, offset>> of the parsed indexes they were generated from, in the same order
Parsed == FlatOffsets(last.files, 1, 1)

MergedGenerated == last.fn = "gen_merged_cuesheet" /\ last.err = ""

(* C6 as first stated: in the cuesheet produced by gen_merged_cuesheet,     *)
(* every index of a track in the k-th source file is emitted at sector      *)
(* (sum over the files before the k-th of size/blocksize) + (the index's    *)
(* parsed offset), the quotient being exact.                                *)
C6_Original ==
    MergedGenerated =>
        /\ Len(Emitted) = Len(Parsed)
        /\ \A i \in 1..Len(Parsed) :
               StampSectors(Emitted[i].stamp) * globalBlocksize
                   = SizeBefore(last.files, Parsed[i][1]) + Parsed[i][2] * globalBlocksize

(* C6 as amended: when every source file before the k-th holds a whole      *)
(* number of sectors, every index of a track in the k-th source file is     *)
(* emitted at sector (sum over the files before the k-th of                 *)
(* size/blocksize) + (the index's parsed offset); for files of              *)
(* blocksize*1000 and blocksize*500 bytes the first file's indexes are      *)
(* unshifted, the second file's are shifted by exactly 1000 sectors (and a  *)
(* third file's by 1500).                                                   *)
C6_MergedOffsets ==
    MergedGenerated =>
        /\ Len(Emitted) = Len(Parsed)
        /\ \A i \in 1..Len(Parsed) :
               LET k   == Parsed[i][1]
                   off == Parsed[i][2]
                   e   == StampSectors(Emitted[i].stamp)
               IN  /\ WholeSectorsBefore(last.files, k, globalBlocksize) =>
                          e = (SizeBefore(last.files, k) \div globalBlocksize) + off
                   /\ (/\ Len(last.files) >= 2
                       /\ last.files[1].size = globalBlocksize * 1000
                       /\ last.files[2].size = globalBlocksize * 500)
                      => /\ k = 1 => e = off
                         /\ k = 2 => e = 1000 + off
                         /\ k = 3 => e = 1500 + off

\* the example of the claim was generated: three files, the second of which has
\* its indexes 0 and 150 emitted at 1000 and 1150, the third its index 0 at 1500
C6_Witness ==
    /\ MergedGenerated
    /\ Len(last.files) = 3
    /\ last.files[1].size = globalBlocksize * 1000
    /\ last.files[2].size = globalBlocksize * 500
    /\ Len(Emitted) = 4
    /\ StampSectors(Emitted[1].stamp) = 0
    /\ StampSectors(Emitted[2].stamp) = 1000
    /\ StampSectors(Emitted[3].stamp) = 1150
    /\ StampSectors(Emitted[4].stamp) = 1500

-----------------------------------------------------------------------------
IsTrackLine(line) == line.kind = "TRACK"

\* the type tag of the first TRACK line of a cuesheet
FirstTrackType(lines) == SelectSeq(lines, IsTrackLine)[1].name

\* the cuesheet text the last read_cue_file call was given
LastCueLines == last.before[last.path].lines

(* C7: for any sequence of read_cue_file calls in one process, the          *)
(* blocksize the arithmetic of a parse uses (Track.globalBlocksize when it  *)
(* returns) is the blocksize-table value of the type tag of the first TRACK *)
(* line of that same cuesheet, whatever was parsed before.                  *)
C7_BlocksizeOfThisCuesheet ==
    (/\ last.fn = "read_cue_file"
     /\ last.err = ""
     /\ SelectSeq(LastCueLines, IsTrackLine) # <<>>)
    => globalBlocksize = BlocksizeOf(FirstTrackType(LastCueLines))

\* a FILE line of the cuesheet names a path that is absent or cannot be read
NamesBadFile(f, lines) ==
    \E i \in 1..Len(lines) :
        /\ lines[i].kind = "FILE"
        /\ \/ lines[i].name \notin DOMAIN f
           \/ ~f[lines[i].name].readable

(* C8: read_cue_file fails with the bin-file-missing error on a FILE line   *)
(* whose path does not exist or is not readable (either alone is enough),   *)
(* and returns no DiscImage.                                                *)
C8_BinMissing ==
    (/\ last.fn = "read_cue_file"
     /\ last.path \in DOMAIN last.before
     /\ NamesBadFile(last.before, LastCueLines))
    => /\ last.err = "BinMissing"
       /\ last.files = <<>>

\* what holds of the code: an absent path alone ends the parse with that error
C8_AbsentPathRejected ==
    (/\ last.fn = "read_cue_file"
     /\ last.path \in DOMAIN last.before
     /\ \E i \in 1..Len(LastCueLines) :
            LastCueLines[i].kind = "FILE" /\ LastCueLines[i].name \notin DOMAIN last.before)
    => /\ last.err = "BinMissing"
       /\ last.files = <<>>

RECURSIVE ConcatSources(_, _, _)
\* the bytes of the source files from the k-th on, one after the other
ConcatSources(f, files, k) ==
    IF k > Len(files) THEN NoData
    ELSE Concat(f[files[k].filename].data, ConcatSources(f, files, k + 1))

RECURSIVE SumSizes(_, _, _)
SumSizes(f, files, k) ==
    IF k > Len(files) THEN 0
    ELSE DataSize(f[files[k].filename].data) + SumSizes(f, files, k + 1)

MergeReturnedConcatenation ==
    /\ last.err = ""
    /\ DOMAIN fs = (DOMAIN last.before) \cup {last.path}
    /\ \A p \in DOMAIN last.before : fs[p] = last.before[p]
    /\ fs[last.path].data = ConcatSources(last.before, last.files, 1)
    /\ DataSize(fs[last.path].data) = SumSizes(fs, last.files, 1)

(* C10: when the destination does not exist, merge_files returns success    *)
(* with the destination holding exactly the concatenation of the source     *)
(* files' bytes in DiscImage order (its length the sum of the sources'      *)
(* lengths), for any number of files and any lengths, multiples of the      *)
(* chunk size or not, empty files included.                                 *)
C10_MergeConcatenates ==
    (last.fn = "merge_files" /\ ~Exists(last.before, last.path)) => MergeReturnedConcatenation

\* what holds of the code: the same, for sources that open
C10_WhenSourcesOpen ==
    (/\ last.fn = "merge_files"
     /\ ~Exists(last.before, last.path)
     /\ \A k \in 1..Len(last.files) : OpenReadError(last.before, last.files[k].filename) = "")
    => MergeReturnedConcatenation

\* some per-track target of the split just attempted was there before it
SomeTargetExisted ==
    LET tracks == last.files[1].tracks
    IN  \E i \in 1..Len(tracks) :
            Exists(last.before, track_filename(last.path, tracks[i].num, Len(tracks)))

(* C4: split_files is all-or-nothing on target collisions: if any one of    *)
(* the N per-track target filenames already exists, at any position of the  *)
(* track list, split_files fails with the target-exists error and no output *)
(* file has been created or modified.                                       *)
C4_SplitAllOrNothing ==
    (last.fn = "split_files" /\ SomeTargetExisted) =>
        /\ last.err = "TargetExists"
        /\ fs = last.before

\* what holds of the code: it fails and writes nothing, with the target-exists
\* error when the source binary opens
C4_NothingWritten ==
    (last.fn = "split_files" /\ SomeTargetExisted) =>
        /\ last.err # ""
        /\ OpenReadError(last.before, last.files[1].filename) = "" => last.err = "TargetExists"
        /\ fs = last.before

\* split.cue describes a split image in the glossary's sense: every per-track
\* file is there, can be read and holds whole sectors of the image's blocksize
WellFormedSplitImage ==
    \A k \in 1..Len(SplitBins) :
        /\ SplitBins[k] \in DOMAIN fs
        /\ fs[SplitBins[k]].readable
        /\ DataSize(fs[SplitBins[k]].data) % BlocksizeOf(FirstTrackType(fs["split.cue"].lines)) = 0

\* split_files just returned from splitting the image that merging split.cue produced
RoundTripDone ==
    /\ last.fn = "split_files"
    /\ last.err = ""
    /\ loc.cuefile = "out.cue"
    /\ mergedFrom = "split.cue"

TracksReproduced ==
    \A k \in 1..Len(SplitBins) :
        LET out_name == track_filename(loc.dest.stem, k, Len(SplitBins))
        IN  /\ out_name \in DOMAIN fs
            /\ fs[out_name].data = fs[SplitBins[k]].data

(* C2: round trip: merging a split image with merge_files and               *)
(* gen_merged_cuesheet, parsing the merged cuesheet with read_cue_file and  *)
(* running split_files on the merged file gives one output file per track   *)
(* whose bytes are those of the original file of that track.  Stated for    *)
(* the split images whose files hold whole sectors.                         *)
C2_RoundTrip ==
    (RoundTripDone /\ WellFormedSplitImage) => TracksReproduced

\* what holds of the code: the round trip reproduces the tracks when the blocksize
\* in force is the one of the image's own track type
C2_RoundTripOwnBlocksize ==
    (/\ RoundTripDone
     /\ WellFormedSplitImage
     /\ globalBlocksize = BlocksizeOf(FirstTrackType(fs["split.cue"].lines)))
    => TracksReproduced

-----------------------------------------------------------------------------
RECURSIVE TrackStart(_, _, _)
\* the byte of the source where the copy of the i-th track is to start: the sizes
\* of the tracks before it
TrackStart(tracks, i, gbs) ==
    IF i = 1 THEN 0
    ELSE TrackStart(tracks, i - 1, gbs) + tracks[i - 1].sectors[1] * gbs

RECURSIVE SplitCopyReads(_, _, _)
\* how many times the copy loop of one track reads before it breaks
SplitCopyReads(chunksize, written, tracksize) ==
    LET c == IF chunksize + written > tracksize THEN tracksize - written ELSE chunksize
    IN  IF written + c = tracksize THEN 1
        ELSE 1 + SplitCopyReads(c, written + c, tracksize)

\* split_files was just called on a file that opens, with every track's sector
\* count set by the parser and no target in the way
SplitAttempted ==
    /\ last.fn = "split_files"
    /\ OpenReadError(last.before, last.files[1].filename) = ""
    /\ \A i \in 1..Len(last.files[1].tracks) : last.files[1].tracks[i].sectors # None
    /\ ~SomeTargetExisted

\* every track's output holds sectors * blocksize bytes, those of the source from
\* where the track before it ended, and its loop read once per chunk
SplitWroteTracks ==
    LET tracks == last.files[1].tracks
        gbs    == last.gbs0
        data   == last.before[last.files[1].filename].data
    IN  /\ last.err = ""
        /\ \A i \in 1..Len(tracks) :
               LET out_name  == track_filename(last.path, tracks[i].num, Len(tracks))
                   tracksize == tracks[i].sectors[1] * gbs
                   start     == TrackStart(tracks, i, gbs)
               IN  /\ out_name \in DOMAIN fs
                   /\ DataSize(fs[out_name].data) = tracksize
                   /\ fs[out_name].data = Slice(data, start, start + tracksize)
                   /\ SplitCopyReads(Chunksize, 0, tracksize)
                          = IF tracksize <= Chunksize THEN 1
                            ELSE (tracksize + Chunksize - 1) \div Chunksize
        /\ \A p \in DOMAIN last.before : fs[p] = last.before[p]

(* C11: when no target exists, split_files writes for each track, in track  *)
(* order, an output file of exactly track.sectors * blocksize bytes, taken   *)
(* from the source at the position where the copy of the track before it     *)
(* ended (0 for the first track) and never reading past the track's          *)
(* boundary, and the copy loop of every track ends.                          *)
C11_SplitWritesTracks ==
    SplitAttempted => SplitWroteTracks

\* the source holds the bytes of every track: no sector count is negative and
\* the last track ends within the file
SourceHoldsEveryTrack ==
    LET tracks == last.files[1].tracks
        n      == Len(tracks)
    IN  /\ \A i \in 1..n : tracks[i].sectors[1] >= 0
        /\ n > 0 => TrackStart(tracks, n, last.gbs0) + tracks[n].sectors[1] * last.gbs0
                        <= DataSize(last.before[last.files[1].filename].data)

\* what holds of the code: the same, when the source holds the bytes of every track
C11_WhenSourceHoldsEveryTrack ==
    (SplitAttempted /\ SourceHoldsEveryTrack) => SplitWroteTracks

\* a split of a three-track image that holds every track has just returned
C11_Witness ==
    /\ SplitAttempted
    /\ SourceHoldsEveryTrack
    /\ last.err = ""
    /\ Len(last.files[1].tracks) = 3
    /\ \E i \in 1..3 : last.files[1].tracks[i].sectors[1] * last.gbs0 > Chunksize

-----------------------------------------------------------------------------
\* the handles one of the three functions opened, in the call just made
HandlesOpened ==
    LET events == IF last.fn = "read_cue_file" THEN read_cue_file_events(last.before, last.path)
                  ELSE IF last.fn = "merge_files"
                       THEN merge_files_events(last.before, last.path, last.files)
                  ELSE split_files_events(last.before, last.path, last.files[1])
    IN  {events[i].path : i \in {j \in 1..Len(events) : events[j].op = "open"}}

(* C12: after read_cue_file, merge_files or split_files returns, normally   *)
(* or by raising an error, every file handle the call opened (cuesheet,     *)
(* source binaries, output files) is closed.                                *)
C12_HandlesClosed ==
    last.fn \in {"read_cue_file", "merge_files", "split_files"} => last.open = {}

\* what holds of the code: the two copy engines leave no handle open
C12_EnginesCloseHandles ==
    last.fn \in {"merge_files", "split_files"} => last.open = {}

\* a merge that opened its destination and a source has ended on the open()
\* of the next source
C12_Witness ==
    /\ last.fn = "merge_files"
    /\ last.err = "PermissionError"
    /\ Cardinality(HandlesOpened) >= 2

-----------------------------------------------------------------------------
RECURSIVE ColonFields(_)
\* the fields of s between its colons
ColonFields(s) ==
    IF \A i \in 1..Len(s) : s[i] # ":" THEN <<s>>
    ELSE LET c == CHOOSE i \in 1..Len(s) : s[i] = ":" /\ \A j \in 1..(i - 1) : s[j] # ":"
         IN  <<SubSeq(s, 1, c - 1)>> \o ColonFields(SubSeq(s, c + 1, Len(s)))

\* a non-negative integer in decimal
IsNumeral(field) == Len(field) > 0 /\ \A i \in 1..Len(field) : IsDigit(field[i])

RECURSIVE NumeralValue(_, _)
\* the value of the digits of field after acc, most significant first
NumeralValue(field, acc) ==
    IF field = <<>> THEN acc
    ELSE NumeralValue(Tail(field), 10 * acc + DigitValue(Head(field)))

\* exactly three colon-separated non-negative integers
ThreeIntegers(s) ==
    LET fields == ColonFields(s)
    IN  Len(fields) = 3 /\ \A k \in 1..3 : IsNumeral(fields[k])

FramesOf(s) ==
    LET fields == ColonFields(s)
    IN  NumeralValue(fields[3], 0) + NumeralValue(fields[2], 0) * 75
        + NumeralValue(fields[1], 0) * 60 * 75

(* C13: cuestamp_to_sectors returns frames + seconds*75 + minutes*60*75 for *)
(* a string of exactly three colon-separated non-negative integers, and     *)
(* fails for every other string: fewer or more than three fields, trailing  *)
(* text, non-digit fields.                                                  *)
C13_ThreeIntegersOrError ==
    pure.fn = "cuestamp_to_sectors" =>
        IF ThreeIntegers(pure.args[1])
        THEN pure.ret = [err |-> "", val |-> FramesOf(pure.args[1])]
        ELSE pure.ret.err # ""

\* the longest beginning of s that is three colon-separated integers, <<>> when
\* s has no such beginning
StampPrefix(s) ==
    LET ends == {n \in 1..Len(s) : ThreeIntegers(SubSeq(s, 1, n))}
    IN  IF ends = {} THEN <<>>
        ELSE SubSeq(s, 1, CHOOSE n \in ends : \A k \in ends : k <= n)

\* what holds of the code: the string is only required to begin with three
\* colon-separated integers; what follows the third is ignored, and the call
\* fails, with an AttributeError, when the string has no such beginning
C13_BeginsWithThreeIntegers ==
    pure.fn = "cuestamp_to_sectors" =>
        IF StampPrefix(pure.args[1]) # <<>>
        THEN pure.ret = [err |-> "", val |-> FramesOf(StampPrefix(pure.args[1]))]
        ELSE pure.ret.err = "AttributeError"

\* the call was made on a fourth field after three integers, on trailing text,
\* on two fields, on a non-digit field and on three integers alone
C13_Witness ==
    /\ pure.fn = "cuestamp_to_sectors"
    /\ pure.args[1] \in { <<"0", ":", "7", ":", "0", ":", "7">>,
                          <<"0", ":", "7", ":", "0", "x">>,
                          <<"0", "7", ":", "0", "7">>,
                          <<"0", ":", "x", ":", "0">>,
                          <<"0", "7", ":", "0", "0", ":", "7", "0">> }

-----------------------------------------------------------------------------
(* C14: every run of the merge or split button action that disables the UI  *)
(* controls enables them again before it ends, on every outcome (parse      *)
(* failure, target-exists error, an I/O error during the binary copy or     *)
(* while the cuesheet is written, success); and the new cuesheet is written *)
(* only after the binary copy has completed successfully.  Between two      *)
(* handler runs, then, both sets of controls are enabled.  Stated for the   *)
(* filesystems all of whose files can be read.                              *)
C14_UiReenabled ==
    (pc = "idle" /\ \A p \in DOMAIN fs : fs[p].readable) => (ui.merge /\ ui.split)

\* what holds of the code: the split action enables its controls on every outcome
C14_SplitUiReenabled ==
    pc = "idle" => ui.split

\* what holds of the code: the merge action ends with its controls disabled only
\* on an exception that is neither one of the parse nor an ErrorException
C14_MergeUiReenabled ==
    [][(pc \in {"merge_read", "merge_gen", "merge_copy", "merge_cue"} /\ pc' = "idle" /\ ~ui'.merge)
          => /\ last'.fn \in {"gen_merged_cuesheet", "merge_files", "open"}
             /\ last'.err \notin {"", "TargetExists"}]_vars

\* what holds of the code: a step that puts a cuesheet at the destination is
\* taken right after the copy engine of that handler returned without an error
C14_CueAfterCopy ==
    [][(\E p \in DOMAIN fs' : fs'[p].kind = "cue" /\ (p \notin DOMAIN fs \/ fs[p] # fs'[p]))
          => /\ last.err = ""
             /\ \/ pc = "merge_cue" /\ last.fn = "merge_files"
                \/ pc = "split_cue" /\ last.fn = "split_files"]_vars

\* a merge copied the binary, could not open the new cuesheet for writing, and ended
C14_Witness ==
    /\ pc = "idle"
    /\ last.fn = "open"
    /\ last.err = "OSError"
    /\ ~ui.merge

====
